---------------------------- MODULE Spec2Model ----------------------------
(***************************************************************************)
(* Model of ppu-paddle-ocr: the PaddleOcrService pipeline (lifecycle,      *)
(* recognize, deskewImage, hot swaps), the ImageCache LRU map and its      *)
(* fingerprint function, and the result assembly of processRecognition.    *)
(***************************************************************************)
EXTENDS Integers, Sequences, FiniteSets, TLC

VARIABLES
    detectionSession,    \* PaddleOcrService.detectionSession: NoSession or a session
    recognitionSession,  \* PaddleOcrService.recognitionSession: NoSession or a session
    optModel,            \* PaddleOcrService.options.model: the three resource sources
    optDictionary,       \* PaddleOcrService.options.recognition.charactersDictionary
    optAutoDeskew,       \* PaddleOcrService.options.detection.autoDeskew
    created,             \* number of inference sessions created so far (ids 1..created)
    released,            \* ids of the sessions on which release() was called
    lifecycle,           \* history: which of initialize()/destroy() completed last
    last,                \* the last completed public call of the service and its outcome
    cache,               \* ImageCache.cache: entries in Map insertion order
    maxSize,             \* ImageCache.maxSize
    clock,               \* number of ImageCache operations performed
    lastUse,             \* key -> clock value of its most recent get hit or set
    cacheOp,             \* the last ImageCache operation and what it returned
    keyIn,               \* inputs handed to ImageCache.generateKey
    keyOut,              \* the keys generateKey returned for keyIn
    phase,               \* where one RecognitionService.run call stands
    boxTasks,            \* per valid box, where its processBox task stands
    rectIn,              \* a contour rectangle and the geometry of its image
    boxOut,              \* what extractBoxesFromContours made of rectIn
    logitsIn,            \* a model output and a dictionary handed to the decoder
    decodeOut,           \* what ctcGreedyDecode returned for logitsIn
    recognitionIn,       \* per-box results handed to the reading-order assembly
    assembled,           \* the sorted results and what processRecognition made of them
    anglesIn,            \* pooled skew measurements handed to calculateConsensusAngle
    angleOut             \* the angle calculateConsensusAngle returned for anglesIn

vars == <<detectionSession, recognitionSession, optModel, optDictionary,
          optAutoDeskew,
          created, released, lifecycle, last, cache, maxSize, clock,
          lastUse, cacheOp, keyIn, keyOut, phase, boxTasks, rectIn, boxOut,
          logitsIn, decodeOut, recognitionIn, assembled, anglesIn, angleOut>>

serviceVars == <<detectionSession, recognitionSession, optModel,
                 optDictionary, optAutoDeskew, created, released, lifecycle,
                 last>>

cacheVars == <<cache, maxSize, clock, lastUse, cacheOp>>

keyVars == <<keyIn, keyOut>>

taskVars == <<phase, boxTasks>>

boxVars == <<rectIn, boxOut>>

decodeVars == <<logitsIn, decodeOut>>

assembleVars == <<recognitionIn, assembled>>

skewVars == <<anglesIn, angleOut>>

Null == "null"

Undefined == "undefined"

---------------------------------------------------------------------------
(* Bounds of the model                                                     *)

MaxBacking == 3      \* longest backing allocation of a fingerprinted input

MaxCap == 2          \* largest ImageCache capacity explored

MaxClock == 5        \* number of ImageCache operations explored

MaxSessions == 3     \* number of inference sessions the runtime creates

MaxBoxes == 4        \* number of valid boxes handed to one recognition run

---------------------------------------------------------------------------
(* Helpers                                                                 *)

Min(a, b) == IF a < b THEN a ELSE b

Range(s) == {s[i] : i \in 1..Len(s)}

RECURSIVE SumSeq(_)
SumSeq(s) == IF s = <<>> THEN 0 ELSE s[1] + SumSeq(Tail(s))

RECURSIVE Gcd(_, _)
Gcd(a, b) == IF b = 0 THEN a ELSE Gcd(b, a % b)

\* an exact quotient num/den, den > 0, as a reduced fraction
Quotient(num, den) ==
    LET g == Gcd(num, den)
    IN  IF num = 0 THEN <<0, 1>> ELSE <<num \div g, den \div g>>

---------------------------------------------------------------------------
(* ImageCache.generateKey                                                  *)

KeyBytes == {1, 200}

KeyPrefixLen == 1024

\* hash = (hash << 5) - hash + byte; hash = hash & hash: 31 * hash + byte
\* wrapped to a signed 32-bit integer, computed on 16-bit halves
HashStep(hash, byte) ==
    LET lo == hash % 65536
        hi == (hash \div 65536) % 65536
        l == lo * 31 + byte
        newLo == l % 65536
        newHi == (hi * 31 + (l \div 65536)) % 65536
    IN  IF newHi >= 32768
        THEN (newHi - 65536) * 65536 + newLo
        ELSE newHi * 65536 + newLo

\* what generateKey can be handed: an ArrayBuffer, or a typed-array view
\* (Buffer from toBuffer(), Uint8ClampedArray from getImageData().data) that
\* exposes length bytes of its backing allocation starting at offset
ViewsOf(b) ==
    { [kind |-> "ArrayBuffer", backing |-> b, offset |-> 0, length |-> Len(b)] }
    \cup
    { x \in [kind : {"Buffer", "Uint8ClampedArray"}, backing : {b},
             offset : 0..Len(b), length : 0..Len(b)] :
        x.offset + x.length <= Len(b) }

KeyInputs == UNION { ViewsOf(b) : b \in UNION {[1..l -> KeyBytes] : l \in 0..MaxBacking} }

\* new Uint8Array(imageBuffer): an ArrayBuffer is wrapped whole, a typed
\* array is copied element by element, i.e. from its own offset and length
Uint8ArrayOf(x) ==
    IF x.kind = "ArrayBuffer"
    THEN x.backing
    ELSE SubSeq(x.backing, x.offset + 1, x.offset + x.length)

RECURSIVE HashBytes(_, _, _)
HashBytes(view, len, hash) ==
    IF len = 0 THEN hash
    ELSE LET h == HashBytes(view, len - 1, hash)
         IN  HashStep(h, view[len])

\* the key a view wrapped from byte 0 of the backing allocation would get
GenerateKeyFromBacking(x) ==
    LET view == SubSeq(x.backing, 1, x.length)
        len == Min(Len(view), KeyPrefixLen)
    IN  <<HashBytes(view, len, 0), Len(view)>>

\* the string `${hash}_${view.length}` as the pair it is formatted from
GenerateKey(x) ==
    LET view == Uint8ArrayOf(x)
        len == Min(Len(view), KeyPrefixLen)
    IN  <<HashBytes(view, len, 0), Len(view)>>

KeyInit ==
    /\ keyIn \in KeyInputs \X KeyInputs
    /\ keyOut = <<>>

GenerateKeys ==
    /\ keyOut = <<>>
    /\ keyOut' = <<GenerateKey(keyIn[1]), GenerateKey(keyIn[2])>>
    /\ UNCHANGED keyIn

---------------------------------------------------------------------------
(* ImageCache: a Map in insertion order, oldest entry first                *)

CacheKeys == {"k1", "k2", "k3"}

CacheValues == {Undefined, "v1", "v2"}

DefaultMaxSize == 10

KeysOf(c) == {c[i].key : i \in 1..Len(c)}

MapHas(c, k) == k \in KeysOf(c)

\* Map.get: the stored value, undefined for an absent key
MapGet(c, k) ==
    IF MapHas(c, k)
    THEN (CHOOSE e \in Range(c) : e.key = k).value
    ELSE Undefined

MapDelete(c, k) == SelectSeq(c, LAMBDA e : e.key # k)

\* Map.set: an existing key keeps its position, a new key goes last
MapSet(c, k, v) ==
    IF MapHas(c, k)
    THEN [i \in 1..Len(c) |-> IF c[i].key = k THEN [key |-> k, value |-> v] ELSE c[i]]
    ELSE Append(c, [key |-> k, value |-> v])

\* get that returns the value without re-inserting the entry
CacheAfterGetInPlace(c, k) == c

\* the Map after ImageCache.get(key)
CacheAfterGet(c, k) ==
    LET value == MapGet(c, k)
    IN  IF value # Undefined
        THEN MapSet(MapDelete(c, k), k, value)
        ELSE c

\* set that evicts only once the Map is over capacity
CacheAfterSetLate(c, cap, k, v) ==
    LET kept == IF MapHas(c, k) THEN MapDelete(c, k)
                ELSE IF Len(c) > cap /\ Len(c) > 0 THEN MapDelete(c, c[1].key)
                ELSE c
    IN  MapSet(kept, k, v)

\* the Map after ImageCache.set(key, value)
CacheAfterSet(c, cap, k, v) ==
    LET kept == IF MapHas(c, k) THEN MapDelete(c, k)
                ELSE IF Len(c) >= cap /\ Len(c) > 0 THEN MapDelete(c, c[1].key)
                ELSE c
    IN  MapSet(kept, k, v)

\* bookkeeping of recency: key k was touched at time t in the new Map c
Touch(c, k, t) ==
    [x \in KeysOf(c) |-> IF x = k THEN t ELSE lastUse[x]]

CacheInit(cap) ==
    /\ cache = <<>>
    /\ maxSize = cap
    /\ clock = 0
    /\ lastUse = <<>>
    /\ cacheOp = [op |-> "new", key |-> Null, ret |-> Undefined, evicted |-> {}]

Get(k) ==
    /\ clock < MaxClock
    /\ cache' = CacheAfterGet(cache, k)
    /\ clock' = clock + 1
    /\ lastUse' = IF MapGet(cache, k) # Undefined
                  THEN Touch(cache', k, clock')
                  ELSE lastUse
    /\ cacheOp' = [op |-> "get", key |-> k, ret |-> MapGet(cache, k), evicted |-> {}]
    /\ UNCHANGED maxSize

Set(k, v) ==
    /\ clock < MaxClock
    /\ cache' = CacheAfterSet(cache, maxSize, k, v)
    /\ clock' = clock + 1
    /\ lastUse' = Touch(cache', k, clock')
    /\ cacheOp' = [op |-> "set", key |-> k, ret |-> Undefined,
                   evicted |-> KeysOf(cache) \ KeysOf(cache')]
    /\ UNCHANGED maxSize

Clear ==
    /\ clock < MaxClock
    /\ cache' = <<>>
    /\ clock' = clock + 1
    /\ lastUse' = <<>>
    /\ cacheOp' = [op |-> "clear", key |-> Null, ret |-> Undefined,
                   evicted |-> KeysOf(cache)]
    /\ UNCHANGED maxSize


---------------------------------------------------------------------------
(* Resources: model files and dictionaries                                 *)

LoadError == "LoadError"

Corrupt == "corrupt"

\* the value of a session field that holds null
NoSession == [id |-> 0, model |-> "null"]

DefaultDetModel == "detA"

DefaultRecModel == "recA"

\* dictionary file contents, as the sequence of their characters; "<unk>"
\* stands for the five characters of the unknown-token marker
DefaultDictContent == <<"a", "\n", "b", "\n", " ">>

OtherDictContent == <<"x", "\n", "<unk>">>

EmptyDictContent == <<>>

Buf(content) == [kind |-> "buffer", content |-> content]

Path(content) == [kind |-> "path", content |-> content]

\* an absent source; the content loaded for it is that of the default URL
Absent(defaultContent) == [kind |-> "undefined", content |-> defaultContent]

Loaded(content) == [ok |-> TRUE, content |-> content]

Failed(content) == [ok |-> FALSE, content |-> content]

\* _loadResource: an ArrayBuffer is returned as is; a path or URL, and the
\* default URL used for an absent source, is read and may fail
LoadOutcomes(source) ==
    IF source.kind = "buffer" THEN {Loaded(source.content)}
    ELSE {Loaded(source.content), Failed(source.content)}

RECURSIVE SplitFrom(_, _)
\* dictionaryContent.split("\n"), with the entry being read in cur
SplitFrom(content, cur) ==
    IF content = <<>> THEN <<cur>>
    ELSE IF Head(content) = "\n"
         THEN <<cur>> \o SplitFrom(Tail(content), <<>>)
         ELSE SplitFrom(Tail(content), Append(cur, Head(content)))

Split(content) == SplitFrom(content, <<>>)

\* ort.InferenceSession.create on a buffer that is a model
NewSession(content) == [id |-> created + 1, model |-> content]

\* whether session?.release() resolves: on a session that was released
\* before, the runtime either does nothing or throws "already disposed"
ReleaseOutcomes(session) ==
    IF session = NoSession THEN {TRUE}
    ELSE IF released[session.id] > 0 THEN BOOLEAN ELSE {TRUE}

\* release() resolved on every session created so far
ReleaseAllCreated(rel, ss) ==
    [i \in DOMAIN rel |-> IF i <= created THEN Min(rel[i] + 1, 2) ELSE rel[i]]

\* session?.release() resolved on each session of the sequence ss; released
\* counts these calls on a session as 0, 1 or 2 for more than one
RECURSIVE ReleaseAll(_, _)
ReleaseAll(rel, ss) ==
    IF ss = <<>> THEN rel
    ELSE ReleaseAll(IF Head(ss) = NoSession THEN rel
                    ELSE [rel EXCEPT ![Head(ss).id] = Min(@ + 1, 2)], Tail(ss))

---------------------------------------------------------------------------
(* Images and the black-box inference on them                              *)

\* the inputs of recognize: imgA and imgB expose the same bytes from
\* different allocations, imgD is another image
imgA == [kind |-> "ArrayBuffer", backing |-> <<1, 200>>, offset |-> 0, length |-> 2]

imgB == [kind |-> "Buffer", backing |-> <<200, 1, 200, 7>>, offset |-> 1, length |-> 2]

imgD == [kind |-> "Uint8ClampedArray", backing |-> <<7, 7>>, offset |-> 0, length |-> 2]

Images == {imgA, imgB, imgD}

Bx(x, y, w, h) == [x |-> x, y |-> y, width |-> w, height |-> h]

\* detection output per image content and detection model: imgA/imgB show
\* two words on one line, imgD two lines, anything else is blank
DetectBoxes(model, bytes) ==
    IF bytes = <<1, 200>>
    THEN IF model = "detA" THEN <<Bx(50, 0, 30, 10), Bx(0, 1, 40, 10)>>
                           ELSE <<Bx(0, 1, 40, 10)>>
    ELSE IF bytes = <<7, 7>>
    THEN <<Bx(0, 20, 20, 10), Bx(0, 0, 20, 12)>>
    ELSE IF bytes = <<10, 10>>
    THEN <<Bx(0, 22, 20, 10), Bx(0, 2, 20, 10)>>
    ELSE <<>>

\* recognition output for a crop: per timestep the scores of the classes
Logits(model, box) ==
    IF model = "recA"
    THEN IF box.x = 0 THEN <<<<1, 90, 2>>, <<1, 80, 2>>, <<70, 1, 2>>, <<1, 2, 60>>>>
                      ELSE <<<<1, 2, 80>>, <<1, 50, 2>>>>
    ELSE <<<<90, 1, 2>>, <<1, 70, 2>>>>


---------------------------------------------------------------------------
(* RecognitionService: decoding and reading order                          *)

BLANK_INDEX == 0

UNK_TOKEN == <<"<unk>">>

RECURSIVE FindMaxLastFrom(_, _, _)
\* a search in which a later class of equal score replaces the earlier
FindMaxLastFrom(row, c, best) ==
    IF c >= Len(row) THEN best
    ELSE FindMaxLastFrom(row, c + 1,
                         IF best[2] = -1 \/ row[c + 1] >= best[1]
                         THEN <<row[c + 1], c>> ELSE best)

RECURSIVE FindMaxFrom(_, _, _)
\* findMaxProbabilityClass on one timestep: the first class holding the
\* largest score, class indices counted from 0; best is <<value, index>>
FindMaxFrom(row, c, best) ==
    IF c >= Len(row) THEN best
    ELSE FindMaxFrom(row, c + 1,
                     IF best[2] = -1 \/ row[c + 1] > best[1]
                     THEN <<row[c + 1], c>> ELSE best)

FindMaxProbabilityClass(row) ==
    LET best == FindMaxFrom(row, 0, <<0, -1>>)
    IN  IF best[2] = -1 THEN [value |-> 0, index |-> 0]
        ELSE [value |-> best[1], index |-> best[2]]

IsValidDictionaryIndex(index, charDict) == index >= 0 /\ index < Len(charDict)

\* appendCharacterToText: what is appended for a class, <<>> for nothing;
\* the second component tells whether appendFn was called
AppendedCharacter(index, charDict) ==
    IF index = Len(charDict) - 1
    THEN IF charDict[index + 1] = UNK_TOKEN THEN <<<<>>, FALSE>>
         ELSE <<<<" ">>, TRUE>>
    ELSE <<charDict[index + 1], TRUE>>

RECURSIVE CtcFromNoCollapse(_, _, _, _, _)
\* a decoder that skips blanks only
CtcFromNoCollapse(logits, charDict, lastCharIndex, decodedText, charConfidences) ==
    IF logits = <<>>
    THEN [text |-> decodedText,
          confidence |-> IF Len(charConfidences) > 0
                         THEN Quotient(SumSeq(charConfidences), Len(charConfidences))
                         ELSE <<0, 1>>,
          charConfidences |-> charConfidences]
    ELSE LET m == FindMaxProbabilityClass(Head(logits))
             app == IF m.index # BLANK_INDEX
                       /\ IsValidDictionaryIndex(m.index, charDict)
                    THEN AppendedCharacter(m.index, charDict)
                    ELSE <<<<>>, FALSE>>
         IN  CtcFromNoCollapse(Tail(logits), charDict, m.index,
                               decodedText \o app[1],
                               IF app[2] THEN Append(charConfidences, m.value)
                               ELSE charConfidences)

RECURSIVE CtcFromKeepsLastKept(_, _, _, _, _)
\* a decoder in which a blank leaves the remembered class as it is
CtcFromKeepsLastKept(logits, charDict, lastCharIndex, decodedText, charConfidences) ==
    IF logits = <<>>
    THEN [text |-> decodedText,
          confidence |-> IF Len(charConfidences) > 0
                         THEN Quotient(SumSeq(charConfidences), Len(charConfidences))
                         ELSE <<0, 1>>,
          charConfidences |-> charConfidences]
    ELSE LET m == FindMaxProbabilityClass(Head(logits))
             skip == m.index = BLANK_INDEX \/ m.index = lastCharIndex
             app == IF ~skip /\ IsValidDictionaryIndex(m.index, charDict)
                    THEN AppendedCharacter(m.index, charDict)
                    ELSE <<<<>>, FALSE>>
         IN  CtcFromKeepsLastKept(Tail(logits), charDict,
                     IF m.index = BLANK_INDEX THEN lastCharIndex ELSE m.index,
                     decodedText \o app[1],
                     IF app[2] THEN Append(charConfidences, m.value)
                     ELSE charConfidences)

RECURSIVE CtcFrom(_, _, _, _, _)
\* the loop of ctcGreedyDecode over the timesteps left, and what it leaves
\* in decodedText and charConfidences
CtcFrom(logits, charDict, lastCharIndex, decodedText, charConfidences) ==
    IF logits = <<>>
    THEN [text |-> decodedText,
          confidence |-> IF Len(charConfidences) > 0
                         THEN Quotient(SumSeq(charConfidences), Len(charConfidences))
                         ELSE <<0, 1>>,
          charConfidences |-> charConfidences]
    ELSE LET m == FindMaxProbabilityClass(Head(logits))
             skip == m.index = BLANK_INDEX \/ m.index = lastCharIndex
             app == IF ~skip /\ IsValidDictionaryIndex(m.index, charDict)
                    THEN AppendedCharacter(m.index, charDict)
                    ELSE <<<<>>, FALSE>>
         IN  CtcFrom(Tail(logits), charDict, m.index,
                     decodedText \o app[1],
                     IF app[2] THEN Append(charConfidences, m.value)
                     ELSE charConfidences)

\* ctcGreedyDecode; scores are percentages, the confidence their exact mean
CtcGreedyDecode(logits, charDict) ==
    LET d == CtcFrom(logits, charDict, -1, <<>>, <<>>)
    IN  [text |-> d.text, confidence |-> d.confidence]

IsValidBox(box) == ~(box.width <= 0 \/ box.height <= 0)

Abs(n) == IF n < 0 THEN -n ELSE n

\* a comparator that looks at y alone
CompareTopToBottom(a, b) == a.box.y - b.box.y

\* the comparator of sortResultsByReadingOrder
CompareReadingOrder(a, b) ==
    IF 4 * Abs(a.box.y - b.box.y) < a.box.height + b.box.height
    THEN a.box.x - b.box.x
    ELSE a.box.y - b.box.y

IndexPermutations(n) == {p \in [1..n -> 1..n] : \A i, j \in 1..n : i # j => p[i] # p[j]}

\* the comparator orders the input consistently: antisymmetric and transitive
ComparatorConsistent(rs) ==
    \A i, j, k \in 1..Len(rs) :
        /\ (CompareReadingOrder(rs[i], rs[j]) < 0) = (CompareReadingOrder(rs[j], rs[i]) > 0)
        /\ (CompareReadingOrder(rs[i], rs[j]) <= 0 /\ CompareReadingOrder(rs[j], rs[k]) <= 0)
               => CompareReadingOrder(rs[i], rs[k]) <= 0

\* [...results].sort(comparator): the stable sorted order when the comparator
\* is consistent on the input; otherwise the order is left to the engine
SortResultsByReadingOrder(rs) ==
    LET n == Len(rs)
        sorted(p) == \A i, j \in 1..n : i < j =>
                        \/ CompareReadingOrder(rs[p[i]], rs[p[j]]) < 0
                        \/ /\ CompareReadingOrder(rs[p[i]], rs[p[j]]) = 0
                           /\ p[i] < p[j]
        orders == IF ComparatorConsistent(rs)
                  THEN {q \in IndexPermutations(n) : sorted(q)}
                  ELSE IndexPermutations(n)
    IN  { [i \in 1..n |-> rs[p[i]]] : p \in orders }

\* processBoxesInParallel rejecting as soon as one processBox throws
ProcessBoxesAllOrNothing(model, boxes, charDict, failed) ==
    IF failed # {} THEN <<>>
    ELSE [n \in 1..Len(boxes) |->
            LET d == CtcGreedyDecode(Logits(model, boxes[n]), charDict)
            IN  [text |-> d.text, box |-> boxes[n], confidence |-> d.confidence]]

\* processBox on every valid box; the boxes whose index is in failed throw
\* (crop, inference or decode error) and yield null, which is filtered out
ProcessBoxes(model, boxes, charDict, failed) ==
    LET idx == SelectSeq([i \in 1..Len(boxes) |-> i],
                         LAMBDA i : IsValidBox(boxes[i]) /\ i \notin failed)
    IN  [n \in 1..Len(idx) |->
            LET d == CtcGreedyDecode(Logits(model, boxes[idx[n]]), charDict)
            IN  [text |-> d.text, box |-> boxes[idx[n]], confidence |-> d.confidence]]


---------------------------------------------------------------------------
(* PaddleOcrService.processRecognition                                     *)

RatAdd(a, b) == Quotient(a[1] * b[2] + b[1] * a[2], a[2] * b[2])

RECURSIVE SumConfidence(_)
SumConfidence(rs) ==
    IF rs = <<>> THEN <<0, 1>>
    ELSE RatAdd(rs[1].confidence, SumConfidence(Tail(rs)))

RECURSIVE SumHeight(_)
SumHeight(line) ==
    IF line = <<>> THEN 0 ELSE line[1].box.height + SumHeight(Tail(line))

RECURSIVE GroupFromDropsClosedLine(_, _, _, _, _)
\* a loop that starts a new line without pushing the one it closes
GroupFromDropsClosedLine(recognition, i, lines, currentLine, fullText) ==
    IF i > Len(recognition)
    THEN [lines |-> IF Len(currentLine) > 0 THEN Append(lines, currentLine) ELSE lines,
          text |-> fullText]
    ELSE LET current == recognition[i]
             previous == recognition[i - 1]
             verticalGap == Abs(current.box.y - previous.box.y)
         IN  IF 2 * verticalGap * Len(currentLine) <= SumHeight(currentLine)
             THEN GroupFromDropsClosedLine(recognition, i + 1, lines,
                            Append(currentLine, current),
                            fullText \o <<" ">> \o current.text)
             ELSE GroupFromDropsClosedLine(recognition, i + 1, lines,
                            <<current>>,
                            fullText \o <<"\n">> \o current.text)

RECURSIVE GroupFrom(_, _, _, _, _)
\* the loop of processRecognition from index i on; avgHeight is
\* SumHeight(currentLine) / Len(currentLine), so that
\* verticalGap <= avgHeight * 0.5 is compared without rounding
GroupFrom(recognition, i, lines, currentLine, fullText) ==
    IF i > Len(recognition)
    THEN [lines |-> IF Len(currentLine) > 0 THEN Append(lines, currentLine) ELSE lines,
          text |-> fullText]
    ELSE LET current == recognition[i]
             previous == recognition[i - 1]
             verticalGap == Abs(current.box.y - previous.box.y)
         IN  IF 2 * verticalGap * Len(currentLine) <= SumHeight(currentLine)
             THEN GroupFrom(recognition, i + 1, lines,
                            Append(currentLine, current),
                            fullText \o <<" ">> \o current.text)
             ELSE GroupFrom(recognition, i + 1, Append(lines, currentLine),
                            <<current>>,
                            fullText \o <<"\n">> \o current.text)

\* a grouping whose first line starts empty instead of with the first item
ProcessRecognitionFirstLost(recognition) ==
    IF Len(recognition) = 0
    THEN [text |-> <<>>, lines |-> <<>>, confidence |-> <<0, 1>>]
    ELSE LET total == SumConfidence(recognition)
             g == GroupFrom(recognition, 2, <<>>, <<>>, recognition[1].text)
         IN  [text |-> g.text, lines |-> g.lines,
              confidence |-> Quotient(total[1], total[2] * Len(recognition))]

ProcessRecognition(recognition) ==
    IF Len(recognition) = 0
    THEN [text |-> <<>>, lines |-> <<>>, confidence |-> <<0, 1>>]
    ELSE LET total == SumConfidence(recognition)
             g == GroupFrom(recognition, 2, <<>>, <<recognition[1]>>,
                            recognition[1].text)
         IN  [text |-> g.text, lines |-> g.lines,
              confidence |-> Quotient(total[1], total[2] * Len(recognition))]

\* a result that always has the grouped shape
RecognizeResultGrouped(recognition, flatten) == ProcessRecognition(recognition)

\* the value recognize returns for the sorted recognition results
RecognizeResult(recognition, flatten) ==
    LET processed == ProcessRecognition(recognition)
    IN  IF flatten = TRUE
        THEN [text |-> processed.text, results |-> recognition,
              confidence |-> processed.confidence]
        ELSE processed


---------------------------------------------------------------------------
(* PaddleOcrService                                                        *)

NotInitializedError == "NotInitializedError"

IsInitialized == detectionSession # NoSession /\ recognitionSession # NoSession

SwapDetectionSources == {Buf("detB"), Path(Corrupt)}

SwapRecognitionSources == {Buf("recB"), Path(Corrupt)}

SwapDictionarySources == {Buf(OtherDictContent), Path(EmptyDictContent)}

RecognizeOptions ==
    [flatten : BOOLEAN,
     dictionary : {Absent(<<>>), Buf(OtherDictContent)},
     noCache : BOOLEAN]

NoOptions == [flatten |-> FALSE, dictionary |-> Absent(<<>>), noCache |-> FALSE]

\* recognize(image, { dictionary }) with an ArrayBuffer of zero bytes
EmptyDictionaryOptions == [NoOptions EXCEPT !.dictionary = Buf(EmptyDictContent)]

NoImage == [kind |-> "none", backing |-> <<>>, offset |-> 0, length |-> 0]

NoResult == [text |-> <<>>]

NoEnv == [failure |-> "none", failed |-> {}, rotation |-> 0, cropRotation |-> 0]

\* the record of a completed call: what was called with what, which
\* failures the image processing and inference met (env), what the call
\* returned or threw, and the runs it made; tick tells two successive
\* calls apart
Call(op, outcome, image, options, env, result, detRuns, recRuns) ==
    [op |-> op, tick |-> 1 - last.tick, outcome |-> outcome, image |-> image,
     options |-> options, env |-> env, result |-> result,
     detRuns |-> detRuns, recRuns |-> recRuns]

\* the service after new PaddleOcrService(options) with these model sources
Constructed(model, autoDeskew) ==
    /\ detectionSession = NoSession
    /\ recognitionSession = NoSession
    /\ optModel = model
    /\ optDictionary = <<>>
    /\ optAutoDeskew = autoDeskew
    /\ created = 0
    /\ released = [i \in 1..MaxSessions |-> 0]
    /\ lifecycle = "Uninitialized"
    /\ last = [op |-> "new", tick |-> 0, outcome |-> "ok", image |-> NoImage,
               options |-> NoOptions, env |-> NoEnv, result |-> NoResult,
               detRuns |-> 0, recRuns |-> 0]

DefaultModelOptions ==
    [detection |-> Absent(DefaultDetModel),
     recognition |-> Absent(DefaultRecModel),
     charactersDictionary |-> Absent(DefaultDictContent)]

\* models and dictionary handed over as ArrayBuffers
BufferModelOptions ==
    [detection |-> Buf(DefaultDetModel),
     recognition |-> Buf(DefaultRecModel),
     charactersDictionary |-> Buf(DefaultDictContent)]

ServiceInit ==
    \E model \in {DefaultModelOptions,
                  [DefaultModelOptions EXCEPT !.recognition = Buf(Corrupt)],
                  [DefaultModelOptions EXCEPT
                      !.charactersDictionary = Buf(EmptyDictContent)]},
       autoDeskew \in BOOLEAN :
        /\ autoDeskew => model = DefaultModelOptions
        /\ Constructed(model, autoDeskew)

\* initialize(): the three resources are loaded in turn; a failure leaves
\* what was assigned before it
Initialize ==
    /\ created + 2 <= MaxSessions
    /\ \E d \in LoadOutcomes(optModel.detection),
          r \in LoadOutcomes(optModel.recognition),
          c \in LoadOutcomes(optModel.charactersDictionary) :
        LET detOk == d.ok /\ d.content # Corrupt
            recOk == detOk /\ r.ok /\ r.content # Corrupt
            dictOk == recOk /\ c.ok /\ Len(Split(c.content)) # 0
        IN  /\ detectionSession' =
                   IF detOk THEN NewSession(d.content) ELSE detectionSession
            /\ recognitionSession' =
                   IF recOk THEN [id |-> created + 2, model |-> r.content]
                   ELSE recognitionSession
            /\ created' = created + (IF detOk THEN 1 ELSE 0) + (IF recOk THEN 1 ELSE 0)
            /\ optModel' =
                   [detection |-> IF detOk THEN Buf(d.content) ELSE optModel.detection,
                    recognition |-> IF recOk THEN Buf(r.content) ELSE optModel.recognition,
                    charactersDictionary |->
                        IF dictOk THEN Buf(c.content) ELSE optModel.charactersDictionary]
            /\ optDictionary' = IF dictOk THEN Split(c.content) ELSE optDictionary
            /\ lifecycle' = IF dictOk THEN "Initialized" ELSE lifecycle
            /\ last' = Call("initialize",
                            IF dictOk THEN "ok"
                            ELSE IF ~d.ok \/ (detOk /\ ~r.ok) \/ (recOk /\ ~c.ok)
                                 THEN LoadError ELSE "Error",
                            NoImage, NoOptions, NoEnv, NoResult, 0, 0)
    /\ UNCHANGED <<released, optAutoDeskew>>

\* changeDetectionModel(model)
ChangeDetectionModel ==
    /\ created < MaxSessions
    /\ \E source \in SwapDetectionSources :
       \E m \in LoadOutcomes(source),
          releaseOk \in ReleaseOutcomes(detectionSession) :
        IF ~m.ok \/ ~releaseOk
        THEN /\ last' = Call("changeDetectionModel", IF ~m.ok THEN LoadError ELSE "Error",
                             NoImage, NoOptions, NoEnv, NoResult, 0, 0)
             /\ UNCHANGED <<detectionSession, optModel, created, released>>
        ELSE /\ released' = ReleaseAll(released, <<detectionSession>>)
             /\ IF m.content = Corrupt
                THEN /\ last' = Call("changeDetectionModel", "Error",
                             NoImage, NoOptions, NoEnv, NoResult, 0, 0)
                     /\ UNCHANGED <<detectionSession, optModel, created>>
                ELSE /\ detectionSession' = NewSession(m.content)
                     /\ created' = created + 1
                     /\ optModel' = [optModel EXCEPT !.detection = Buf(m.content)]
                     /\ last' = Call("changeDetectionModel", "ok",
                             NoImage, NoOptions, NoEnv, NoResult, 0, 0)
    /\ UNCHANGED <<recognitionSession, optDictionary, optAutoDeskew, lifecycle>>

\* changeRecognitionModel(model)
ChangeRecognitionModel ==
    /\ created < MaxSessions
    /\ \E source \in SwapRecognitionSources :
       \E m \in LoadOutcomes(source),
          releaseOk \in ReleaseOutcomes(recognitionSession) :
        IF ~m.ok \/ ~releaseOk
        THEN /\ last' = Call("changeRecognitionModel", IF ~m.ok THEN LoadError ELSE "Error",
                             NoImage, NoOptions, NoEnv, NoResult, 0, 0)
             /\ UNCHANGED <<recognitionSession, optModel, created, released>>
        ELSE /\ released' = ReleaseAll(released, <<recognitionSession>>)
             /\ IF m.content = Corrupt
                THEN /\ last' = Call("changeRecognitionModel", "Error",
                             NoImage, NoOptions, NoEnv, NoResult, 0, 0)
                     /\ UNCHANGED <<recognitionSession, optModel, created>>
                ELSE /\ recognitionSession' = NewSession(m.content)
                     /\ created' = created + 1
                     /\ optModel' = [optModel EXCEPT !.recognition = Buf(m.content)]
                     /\ last' = Call("changeRecognitionModel", "ok",
                             NoImage, NoOptions, NoEnv, NoResult, 0, 0)
    /\ UNCHANGED <<detectionSession, optDictionary, optAutoDeskew, lifecycle>>

\* changeTextDictionary(dictionary)
ChangeTextDictionary ==
    /\ \E source \in SwapDictionarySources :
       \E c \in LoadOutcomes(source) :
        IF ~c.ok \/ Len(Split(c.content)) = 0
        THEN /\ last' = Call("changeTextDictionary",
                             IF ~c.ok THEN LoadError ELSE "Error",
                             NoImage, NoOptions, NoEnv, NoResult, 0, 0)
             /\ UNCHANGED <<optModel, optDictionary>>
        ELSE /\ optModel' = [optModel EXCEPT !.charactersDictionary = Buf(c.content)]
             /\ optDictionary' = Split(c.content)
             /\ last' = Call("changeTextDictionary", "ok",
                             NoImage, NoOptions, NoEnv, NoResult, 0, 0)
    /\ UNCHANGED <<detectionSession, recognitionSession, optAutoDeskew, created,
                   released, lifecycle>>


\* what can throw inside a recognize call: decoding the image (both
\* services decode it), the rest of detection, the rest of recognition
\* outside the per-box tasks
RunFailures == {"none", "decode", "detection", "recognition"}

\* the angle estimated from the probability map of an image
SkewAngle(bytes) == IF bytes = <<7, 7>> THEN 3 ELSE 0

\* processor.rotate({ angle }).toCanvas(): the pixels of the rotated canvas
Rotate(bytes, angle) == [i \in DOMAIN bytes |-> (bytes[i] + angle) % 256]

\* the angle DetectionService.run hands to processor.rotate before it
\* detects: with autoDeskew the estimated skew angle; 0 stands for a
\* canvas that is not rotated
RunRotation(image) ==
    IF optAutoDeskew THEN SkewAngle(Uint8ArrayOf(image)) ELSE 0

\* DetectionService.run: the boxes found on canvasToProcess, or [] when
\* decoding, deskewing, preprocessing, inference or post-processing throws
DetectorRun(session, image, failure) ==
    IF failure \in {"decode", "detection"} THEN <<>>
    ELSE DetectBoxes(session.model,
                     Rotate(Uint8ArrayOf(image), RunRotation(image)))

\* a run whose catch block returns the results of the boxes all the same
RecognitorRunKeepsResults(session, image, detection, charDict, failure, failed) ==
    SortResultsByReadingOrder(
        ProcessBoxes(session.model, detection, charDict, failed))

\* RecognitionService.run: the possible sorted results; [] when it throws
\* outside the per-box tasks
RecognitorRun(session, image, detection, charDict, failure, failed) ==
    IF failure \in {"decode", "recognition"} THEN {<<>>}
    ELSE SortResultsByReadingOrder(
             ProcessBoxes(session.model, detection, charDict, failed))

\* if (options?.dictionary)
HasDictionary(options) == options.dictionary.kind # "undefined"

\* a decoder that ignores the dictionary passed to run
DictionaryInstalledOnly(options, content) == optDictionary

\* const dict = charactersDictionary || this.options.charactersDictionary,
\* charactersDictionary being the split content of options.dictionary
DictionaryUsed(options, content) ==
    IF HasDictionary(options) THEN Split(content) ELSE optDictionary

\* a recognize that stores every result it assembles
CacheAfterRecognizeStored(c, image, options, result) ==
    CacheAfterSet(c, DefaultMaxSize, GenerateKey(image), result)

\* globalImageCache after a recognize call that returned result: recognize
\* has no statement that reads or writes the cache, whatever the options
CacheAfterRecognize(c, image, options, result) == c

\* recognize(image, options), for the images and options a caller passes;
\* detRuns and recRuns count the runs of the detector and of the recognitor
Recognize(images, optionSet) ==
    /\ \E image \in images, options \in optionSet :
        IF ~IsInitialized
        THEN last' = Call("recognize", NotInitializedError, image, options,
                          NoEnv, NoResult, 0, 0)
        ELSE \E c \in (IF HasDictionary(options)
                        THEN LoadOutcomes(options.dictionary)
                        ELSE {Loaded(<<>>)}),
                failure \in RunFailures :
             IF HasDictionary(options) /\ (~c.ok \/ Len(Split(c.content)) = 0)
             THEN last' = Call("recognize", IF ~c.ok THEN LoadError ELSE "Error",
                               image, options, NoEnv, NoResult, 0, 0)
             ELSE LET charDict == DictionaryUsed(options, c.content)
                      detection == DetectorRun(detectionSession, image, failure)
                  IN  \E failed \in (IF failure = "none"
                                      THEN SUBSET (1..Len(detection))
                                      ELSE {{}}) :
                      \E recognition \in RecognitorRun(recognitionSession, image,
                                             detection, charDict, failure, failed) :
                          last' = Call("recognize", "ok", image, options,
                                       [failure |-> failure, failed |-> failed,
                                        rotation |->
                                            IF failure \in {"decode", "detection"}
                                            THEN 0 ELSE RunRotation(image),
                                        cropRotation |-> 0],
                                       RecognizeResult(recognition, options.flatten),
                                       1, 1)
    /\ cache' = IF last'.outcome = "ok"
                THEN CacheAfterRecognize(cache, last'.image, last'.options,
                                         last'.result)
                ELSE cache
    /\ UNCHANGED <<maxSize, clock, lastUse, cacheOp>>
    /\ UNCHANGED <<detectionSession, recognitionSession, optModel,
                   optDictionary, optAutoDeskew, created, released, lifecycle>>

\* deskewImage(image): one detection pass, no recognition; the canvas
\* returned is the source rotated by the angle handed to processor.rotate
DeskewImage(images) ==
    /\ \E image \in images, failure \in {"none", "throw"} :
        last' = IF ~IsInitialized
                THEN Call("deskewImage", NotInitializedError, image, NoOptions,
                          NoEnv, NoResult, 0, 0)
                ELSE IF failure = "throw"
                THEN Call("deskewImage", "Error", image, NoOptions,
                          [NoEnv EXCEPT !.failure = failure], NoResult, 1, 0)
                ELSE Call("deskewImage", "ok", image, NoOptions,
                          [NoEnv EXCEPT !.rotation = SkewAngle(Uint8ArrayOf(image))],
                          [source |-> Uint8ArrayOf(image),
                           angle |-> SkewAngle(Uint8ArrayOf(image))], 1, 0)
    /\ UNCHANGED <<detectionSession, recognitionSession, optModel,
                   optDictionary, optAutoDeskew, created, released, lifecycle>>

\* destroy(): a release() that throws leaves both fields as they are
Destroy ==
    /\ \E detOk \in ReleaseOutcomes(detectionSession),
          recOk \in ReleaseOutcomes(recognitionSession) :
        IF detOk /\ recOk
        THEN /\ released' = ReleaseAll(released,
                                <<detectionSession, recognitionSession>>)
             /\ detectionSession' = NoSession
             /\ recognitionSession' = NoSession
             /\ lifecycle' = "Destroyed"
             /\ last' = Call("destroy", "ok",
                             NoImage, NoOptions, NoEnv, NoResult, 0, 0)
        ELSE /\ released' = IF detOk
                            THEN ReleaseAll(released, <<detectionSession>>)
                            ELSE released
             /\ last' = Call("destroy", "Error",
                             NoImage, NoOptions, NoEnv, NoResult, 0, 0)
             /\ UNCHANGED <<detectionSession, recognitionSession, lifecycle>>
    /\ UNCHANGED <<optModel, optDictionary, optAutoDeskew, created>>

---------------------------------------------------------------------------
(* Specifications                                                          *)

\* no RecognitionService.run call, post-processing or decoding under study
TaskInit == phase = "idle" /\ boxTasks = <<>>

BoxInit == rectIn = <<>> /\ boxOut = <<>>

DecodeInit == logitsIn = <<>> /\ decodeOut = <<>>

AssembleInit == recognitionIn = <<>> /\ assembled = <<>>

SkewInit == anglesIn = <<>> /\ angleOut = <<>>

UnusedInit == TaskInit /\ BoxInit /\ DecodeInit /\ AssembleInit /\ SkewInit

Unused ==
    /\ UNCHANGED taskVars /\ UNCHANGED boxVars /\ UNCHANGED decodeVars
    /\ UNCHANGED assembleVars /\ UNCHANGED skewVars

\* the life cycle of the pipeline: every public operation, on one image
Init ==
    /\ ServiceInit /\ CacheInit(DefaultMaxSize)
    /\ keyIn = <<>> /\ keyOut = <<>> /\ UnusedInit

Next ==
    \/ Initialize /\ UNCHANGED cacheVars /\ UNCHANGED keyVars /\ Unused
    \/ ChangeDetectionModel /\ UNCHANGED cacheVars /\ UNCHANGED keyVars /\ Unused
    \/ ChangeRecognitionModel /\ UNCHANGED cacheVars /\ UNCHANGED keyVars /\ Unused
    \/ ChangeTextDictionary /\ UNCHANGED cacheVars /\ UNCHANGED keyVars /\ Unused
    \/ Recognize({imgD}, {NoOptions, EmptyDictionaryOptions}) /\ UNCHANGED keyVars /\ Unused
    \/ DeskewImage({imgD}) /\ UNCHANGED cacheVars /\ UNCHANGED keyVars /\ Unused
    \/ Destroy /\ UNCHANGED cacheVars /\ UNCHANGED keyVars /\ Unused

Spec == Init /\ [][Next]_vars

\* recognize on every image with every option, by a caller that keeps in
\* globalImageCache, under the fingerprint of the image, the first result
\* of its plain and undisturbed calls on imgA
StoreLast ==
    /\ cache = <<>>
    /\ last.op = "recognize" /\ last.outcome = "ok"
    /\ last.image = imgA /\ last.env = NoEnv
    /\ ~last.options.noCache /\ ~HasDictionary(last.options)
    /\ Set(GenerateKey(last.image), last.result)

RecognizeInit ==
    /\ Constructed(BufferModelOptions, FALSE) /\ CacheInit(DefaultMaxSize)
    /\ keyIn = <<>> /\ keyOut = <<>> /\ UnusedInit

RecognizeNext ==
    \/ Initialize /\ UNCHANGED cacheVars /\ UNCHANGED keyVars /\ Unused
    \/ Recognize(Images, RecognizeOptions) /\ UNCHANGED keyVars /\ Unused
    \/ StoreLast /\ UNCHANGED serviceVars /\ UNCHANGED keyVars /\ Unused

RecognizeSpec == RecognizeInit /\ [][RecognizeNext]_vars

\* the hot swaps on a pipeline whose caller keeps results in the cache, with
\* recognize calls that use the installed dictionary or override it
OverrideOptions == [NoOptions EXCEPT !.dictionary = Buf(OtherDictContent)]

SwapNext ==
    \/ Initialize /\ UNCHANGED cacheVars /\ UNCHANGED keyVars /\ Unused
    \/ ChangeDetectionModel /\ UNCHANGED cacheVars /\ UNCHANGED keyVars /\ Unused
    \/ ChangeRecognitionModel /\ UNCHANGED cacheVars /\ UNCHANGED keyVars /\ Unused
    \/ ChangeTextDictionary /\ UNCHANGED cacheVars /\ UNCHANGED keyVars /\ Unused
    \/ Recognize({imgA}, {NoOptions, OverrideOptions})
           /\ UNCHANGED keyVars /\ Unused
    \/ StoreLast /\ UNCHANGED serviceVars /\ UNCHANGED keyVars /\ Unused

SwapSpec == RecognizeInit /\ [][SwapNext]_vars

\* ImageCache alone, for every capacity from 1 to MaxCap
CacheSpecInit ==
    /\ Constructed(DefaultModelOptions, FALSE) /\ keyIn = <<>> /\ keyOut = <<>>
    /\ UnusedInit
    /\ \E cap \in 1..MaxCap : CacheInit(cap)

CacheNext ==
    \/ (\E k \in CacheKeys : Get(k)) /\ UNCHANGED serviceVars /\ UNCHANGED keyVars /\ Unused
    \/ (\E k \in CacheKeys, v \in CacheValues : Set(k, v))
           /\ UNCHANGED serviceVars /\ UNCHANGED keyVars /\ Unused
    \/ Clear /\ UNCHANGED serviceVars /\ UNCHANGED keyVars /\ Unused

CacheSpec == CacheSpecInit /\ [][CacheNext]_vars

\* ImageCache.generateKey on pairs of inputs
KeySpecInit ==
    /\ Constructed(DefaultModelOptions, FALSE) /\ CacheInit(DefaultMaxSize)
    /\ KeyInit /\ UnusedInit

KeyNext == GenerateKeys /\ UNCHANGED serviceVars /\ UNCHANGED cacheVars /\ Unused

KeySpec == KeySpecInit /\ [][KeyNext]_vars


\* DetectionService post-processing of one contour rectangle

Max(a, b) == IF a > b THEN a ELSE b

\* Math.round(a / b) for b > 0: halves round up
RoundDiv(a, b) == (2 * a + b) \div (2 * b)

\* option || fallback: a missing or zero option takes the fallback
OrDefault(option, fallback) == IF option = 0 THEN fallback ELSE option

\* calculateResizeDimensions; the ratio is the pair <<num, den>>
CalculateResizeDimensions(originalWidth, originalHeight, maxSideLength) ==
    LET longest == Max(originalHeight, originalWidth)
    IN  IF longest > maxSideLength
        THEN [width |-> RoundDiv(originalWidth * maxSideLength, longest),
              height |-> RoundDiv(originalHeight * maxSideLength, longest),
              ratio |-> <<maxSideLength, longest>>]
        ELSE [width |-> originalWidth, height |-> originalHeight,
              ratio |-> <<1, 1>>]

\* preprocessDetection: the geometry handed to post-processing; the canvas
\* is padded to multiples of 32
PreprocessDetection(originalWidth, originalHeight, maxSideLength) ==
    LET r == CalculateResizeDimensions(originalWidth, originalHeight,
                                       maxSideLength)
    IN  [width |-> ((r.width + 31) \div 32) * 32,
         height |-> ((r.height + 31) \div 32) * 32,
         resizeRatio |-> r.ratio,
         originalWidth |-> originalWidth,
         originalHeight |-> originalHeight]

\* applyPaddingToRect; the padding fractions are given in tenths
ApplyPaddingToRect(rect, maxWidth, maxHeight, paddingVertical, paddingHorizontal) ==
    LET verticalPadding == RoundDiv(rect.height * paddingVertical, 10)
        horizontalPadding == RoundDiv(rect.height * paddingHorizontal, 10)
        x == Max(0, rect.x - horizontalPadding)
        y == Max(0, rect.y - verticalPadding)
        rightEdge == Min(maxWidth, rect.x + rect.width + horizontalPadding)
        bottomEdge == Min(maxHeight, rect.y + rect.height + verticalPadding)
    IN  Bx(x, y, rightEdge - x, bottomEdge - y)

\* a conversion that trusts the scaled size to fit the original image
ConvertWithoutClamp(rect, resizeRatio, originalWidth, originalHeight) ==
    Bx(Max(0, RoundDiv(rect.x * resizeRatio[2], resizeRatio[1])),
       Max(0, RoundDiv(rect.y * resizeRatio[2], resizeRatio[1])),
       RoundDiv(rect.width * resizeRatio[2], resizeRatio[1]),
       RoundDiv(rect.height * resizeRatio[2], resizeRatio[1]))

\* convertToOriginalCoordinates
ConvertToOriginalCoordinates(rect, resizeRatio, originalWidth, originalHeight) ==
    LET x == Max(0, RoundDiv(rect.x * resizeRatio[2], resizeRatio[1]))
        y == Max(0, RoundDiv(rect.y * resizeRatio[2], resizeRatio[1]))
    IN  Bx(x, y,
           Min(originalWidth - x,
               RoundDiv(rect.width * resizeRatio[2], resizeRatio[1])),
           Min(originalHeight - y,
               RoundDiv(rect.height * resizeRatio[2], resizeRatio[1])))

\* the body of contours.iterate in extractBoxesFromContours for one
\* contour rectangle: the padded rectangle and the boxes pushed
ExtractBox(rect, input, minBoxArea, paddingVertical, paddingHorizontal) ==
    IF rect.width * rect.height <= minBoxArea
    THEN [padded |-> <<>>, boxes |-> <<>>]
    ELSE LET paddedRect == ApplyPaddingToRect(rect, input.width, input.height,
                                              paddingVertical, paddingHorizontal)
             finalBox == ConvertToOriginalCoordinates(paddedRect,
                             input.resizeRatio, input.originalWidth,
                             input.originalHeight)
         IN  [padded |-> <<paddedRect>>,
              boxes |-> IF finalBox.width > 5 /\ finalBox.height > 5
                        THEN <<finalBox>> ELSE <<>>]

\* the spans <<start, length>> a contour rectangle can take along one
\* axis of a padded canvas of the given side
ContourSpans(side) ==
    {sp \in {0, 3, 18, 31} \X {1, 4, 9, 32} : sp[1] + sp[2] <= side}

\* postprocessDetection called with the options of the service on one
\* contour rectangle of the padded canvas: original sides 20 and 50,
\* maxSideLength 32 and 640, padding fractions in tenths (0 is unset)
PostprocessInputs ==
    UNION { UNION {
        [input : {PreprocessDetection(ow, oh, m)},
         rect : {Bx(h[1], v[1], h[2], v[2]) :
                    h \in ContourSpans(PreprocessDetection(ow, oh, m).width),
                    v \in ContourSpans(PreprocessDetection(ow, oh, m).height)},
         minimumAreaThreshold : {0, 25},
         paddingVertical : {-5, 0, 4, 15},
         paddingHorizontal : {-5, 0, 4, 15}]
        : ow \in {20, 50}, oh \in {20, 50} } : m \in {32, 640} }

PostprocessDetection ==
    /\ boxOut = <<>>
    /\ boxOut' = ExtractBox(rectIn.rect, rectIn.input,
                            OrDefault(rectIn.minimumAreaThreshold, 20),
                            OrDefault(rectIn.paddingVertical, 4),
                            OrDefault(rectIn.paddingHorizontal, 6))
    /\ UNCHANGED rectIn

BoxSpecInit ==
    /\ Constructed(DefaultModelOptions, FALSE) /\ CacheInit(DefaultMaxSize)
    /\ keyIn = <<>> /\ keyOut = <<>>
    /\ TaskInit /\ DecodeInit /\ AssembleInit /\ SkewInit
    /\ rectIn \in PostprocessInputs /\ boxOut = <<>>

BoxNext ==
    /\ PostprocessDetection
    /\ UNCHANGED serviceVars /\ UNCHANGED cacheVars /\ UNCHANGED keyVars
    /\ UNCHANGED taskVars /\ UNCHANGED decodeVars
    /\ UNCHANGED assembleVars /\ UNCHANGED skewVars

BoxSpec == BoxSpecInit /\ [][BoxNext]_vars

\* the assembly of per-box results: sortResultsByReadingOrder, then
\* processRecognition

MaxResults == 3

\* the boxes of the results: two columns, rows 0, 1, 4, 8 and 20 of height
\* 10, and one tall box
AssembleBoxes ==
    {Bx(x, y, 20, 10) : x \in {0, 50}, y \in {0, 1, 4, 8, 20}}
        \cup {Bx(0, 0, 20, 40)}

\* recognitor.run sorts the results and recognize groups them
Assemble ==
    /\ assembled = <<>>
    /\ \E sorted \in SortResultsByReadingOrder(recognitionIn) :
          assembled' = [sorted |-> sorted,
                        grouped |-> ProcessRecognition(sorted)]
    /\ UNCHANGED recognitionIn

\* the lists processBoxesInParallel can hand over: the i-th result reads
\* "w" with confidence 1/(i+1)
AssembleSpecInit ==
    /\ Constructed(DefaultModelOptions, FALSE) /\ CacheInit(DefaultMaxSize)
    /\ keyIn = <<>> /\ keyOut = <<>>
    /\ TaskInit /\ BoxInit /\ DecodeInit /\ SkewInit
    /\ \E boxes \in UNION {[1..n -> AssembleBoxes] : n \in 0..MaxResults} :
          recognitionIn = [i \in DOMAIN boxes |->
                              [text |-> <<"w">>, box |-> boxes[i],
                               confidence |-> <<1, i + 1>>]]
    /\ assembled = <<>>

AssembleNext ==
    /\ Assemble
    /\ UNCHANGED serviceVars /\ UNCHANGED cacheVars /\ UNCHANGED keyVars
    /\ UNCHANGED taskVars /\ UNCHANGED boxVars /\ UNCHANGED decodeVars
    /\ UNCHANGED skewVars

AssembleSpec == AssembleSpecInit /\ [][AssembleNext]_vars

\* DeskewService.calculateConsensusAngle on its own

MaxAngles == 3

RECURSIVE SortByAngle(_)
\* [...angles].sort((a, b) => a.angle - b.angle): stable, ascending
SortByAngle(angles) ==
    IF angles = <<>> THEN <<>>
    ELSE LET rest == SortByAngle(Tail(angles))
             k == Cardinality({i \in 1..Len(rest) :
                                  rest[i].angle < Head(angles).angle})
         IN  SubSeq(rest, 1, k) \o <<Head(angles)>>
                 \o SubSeq(rest, k + 1, Len(rest))

\* calculateConsensusAngle(angles, minAngle, maxAngle); the value returned
\* is an exact fraction
CalculateConsensusAngle(angles, minAngle, maxAngle) ==
    IF Len(angles) = 0 THEN <<0, 1>>
    ELSE
    LET sortedAngles == SortByAngle(angles)
        n == Len(sortedAngles)
        q1 == sortedAngles[(n \div 4) + 1].angle
        q3 == sortedAngles[((3 * n) \div 4) + 1].angle
        iqr == q3 - q1
        filteredAngles ==
            SelectSeq(angles,
                      LAMBDA a : /\ 2 * a.angle >= 2 * q1 - 3 * iqr
                                 /\ 2 * a.angle <= 2 * q3 + 3 * iqr
                                 /\ a.angle >= minAngle
                                 /\ a.angle <= maxAngle)
        totalWeight == SumSeq([i \in 1..Len(filteredAngles) |->
                                  filteredAngles[i].weight])
        weightedSum == SumSeq([i \in 1..Len(filteredAngles) |->
                                  filteredAngles[i].angle * filteredAngles[i].weight])
    IN  IF Len(filteredAngles) = 0
        THEN <<sortedAngles[(n \div 2) + 1].angle, 1>>
        ELSE IF totalWeight = 0
        THEN Quotient(SumSeq([i \in 1..Len(filteredAngles) |->
                                 filteredAngles[i].angle]),
                      Len(filteredAngles))
        ELSE IF weightedSum < minAngle * totalWeight THEN <<minAngle, 1>>
        ELSE IF weightedSum > maxAngle * totalWeight THEN <<maxAngle, 1>>
        ELSE Quotient(weightedSum, totalWeight)

\* calculateSkewAngle pools the measurements of the three methods and
\* asks for their consensus between minAngle -20 and maxAngle 20
ConsensusOfPooled ==
    /\ angleOut = <<>>
    /\ angleOut' = <<CalculateConsensusAngle(anglesIn, -20, 20)>>
    /\ UNCHANGED anglesIn

\* pooled measurements: angles folded into [-45, 45], weights from 0
SkewSpecInit ==
    /\ Constructed(DefaultModelOptions, FALSE) /\ CacheInit(DefaultMaxSize)
    /\ keyIn = <<>> /\ keyOut = <<>>
    /\ TaskInit /\ BoxInit /\ DecodeInit /\ AssembleInit
    /\ anglesIn \in UNION {[1..n -> [angle : {-45, -30, -20, -3, 0, 10, 20, 45},
                                      weight : {0, 1, 3}]] : n \in 0..MaxAngles}
    /\ angleOut = <<>>

SkewNext ==
    /\ ConsensusOfPooled
    /\ UNCHANGED serviceVars /\ UNCHANGED cacheVars /\ UNCHANGED keyVars
    /\ UNCHANGED taskVars /\ UNCHANGED boxVars /\ UNCHANGED decodeVars
    /\ UNCHANGED assembleVars

SkewSpec == SkewSpecInit /\ [][SkewNext]_vars

\* ctcGreedyDecode on its own

MaxSteps == 3

\* the scores of one timestep over four classes: blank strongest, class 1
\* (two strengths), class 2, class 3, and all classes equal
LogitRows ==
    {<<90, 1, 2, 3>>, <<1, 80, 2, 3>>, <<1, 70, 2, 3>>, <<1, 2, 60, 3>>,
     <<1, 2, 3, 50>>, <<5, 5, 5, 5>>}

LogitsUpTo(n) == UNION {[1..k -> LogitRows] : k \in 0..n}

\* dictionaries of five, three, two, one and no entries; the two-entry one
\* ends with the unknown marker
DecodeDictionaries ==
    {Split(<<"a", "\n", "b", "\n", "c", "\n", "d", "\n">>),
     Split(DefaultDictContent), Split(OtherDictContent),
     Split(EmptyDictContent), <<>>}

\* decodeResults calls ctcGreedyDecode(logits, sequenceLength, numClasses,
\* charDict); the probabilities recorded by the loop are kept beside the
\* value returned
DecodeResults ==
    /\ decodeOut = <<>>
    /\ decodeOut' =
           [result |-> CtcGreedyDecode(logitsIn.logits, logitsIn.charDict),
            charConfidences |->
                CtcFrom(logitsIn.logits, logitsIn.charDict, -1, <<>>, <<>>)
                    .charConfidences]
    /\ UNCHANGED logitsIn

DecodeSpecInit ==
    /\ Constructed(DefaultModelOptions, FALSE) /\ CacheInit(DefaultMaxSize)
    /\ keyIn = <<>> /\ keyOut = <<>>
    /\ TaskInit /\ BoxInit /\ AssembleInit /\ SkewInit
    /\ logitsIn \in [logits : LogitsUpTo(MaxSteps), charDict : DecodeDictionaries]
    /\ decodeOut = <<>>

DecodeNext ==
    /\ DecodeResults
    /\ UNCHANGED serviceVars /\ UNCHANGED cacheVars /\ UNCHANGED keyVars
    /\ UNCHANGED taskVars /\ UNCHANGED boxVars
    /\ UNCHANGED assembleVars /\ UNCHANGED skewVars

DecodeSpec == DecodeSpecInit /\ [][DecodeNext]_vars

\* one RecognitionService.run call as the event loop runs it: the tasks of
\* processBoxesInParallel and their requests on the recognition session

\* what the processBox task of the i-th valid box resolves with when it
\* succeeds: the boxes alternate between two lines at one x, so that the
\* comparator ties within a line
BoxResult(i) ==
    [text |-> <<<<"a", "b", "c", "d", "e", "f">>[i]>>,
     box |-> Bx(0, 20 * (i % 2), 20, 10),
     confidence |-> <<1, i + 1>>]

\* the array Promise.all would resolve with if it pushed each value when
\* its promise settles
SettleOrder(settlements) ==
    [n \in 1..Len(settlements) |-> settlements[n]]

\* the array Promise.all(processingTasks) resolves with: the value of each
\* promise at the index of the promise, whenever it settled
PromiseAll(settlements) ==
    [i \in 1..Len(settlements) |->
        CHOOSE st \in Range(settlements) : st.index = i]

\* results.filter(result !== null), then sortResultsByReadingOrder, then
\* processRecognition in recognize
Assembled(values) ==
    LET kept == SelectSeq(values, LAMBDA st : st.ok)
        results == [n \in 1..Len(kept) |-> BoxResult(kept[n].index)]
    IN  {[sorted |-> sorted, grouped |-> ProcessRecognition(sorted)] :
            sorted \in SortResultsByReadingOrder(results)}

\* run(image, detection): prepareCanvas, then map creates one processBox
\* task per valid box; each runs cropRegion and preprocessImage at once
\* and waits, unless cropRegion threw, which its catch turns into null
RunStarts ==
    /\ phase = "idle"
    /\ \E prepared \in BOOLEAN, n \in 0..MaxBoxes :
       \E cropFailed \in SUBSET (1..n) :
        IF prepared
        THEN /\ phase' = "awaiting"
             /\ boxTasks' = [i \in 1..n |-> IF i \in cropFailed THEN "null"
                                             ELSE "preprocessing"]
             /\ recognitionIn' =
                    SelectSeq([i \in 1..n |-> [index |-> i, ok |-> FALSE]],
                              LAMBDA st : st.index \in cropFailed)
             /\ UNCHANGED assembled
        ELSE /\ phase' = "returned"
             /\ boxTasks' = <<>>
             /\ assembled' \in Assembled(<<>>)
             /\ UNCHANGED recognitionIn

\* the continuation of recognizeText after await preprocessImage, run as
\* a microtask in the order of creation: preprocessImage threw, or
\* runInference calls session.run
InferenceRequested(i) ==
    /\ boxTasks[i] = "preprocessing"
    /\ \A j \in 1..(i - 1) : boxTasks[j] # "preprocessing"
    /\ \E ok \in BOOLEAN :
        /\ boxTasks' = [boxTasks EXCEPT ![i] = IF ok THEN "running" ELSE "null"]
        /\ recognitionIn' = IF ok THEN recognitionIn
                            ELSE Append(recognitionIn, [index |-> i, ok |-> FALSE])
    /\ UNCHANGED <<phase, assembled>>

\* session.run settles, once the microtasks are done: the output is
\* decoded, or the rejection or a decoding error is caught as null
InferenceSettled(i) ==
    /\ boxTasks[i] = "running"
    /\ \A j \in DOMAIN boxTasks : boxTasks[j] # "preprocessing"
    /\ \E ok \in BOOLEAN :
        /\ boxTasks' = [boxTasks EXCEPT ![i] = IF ok THEN "decoded" ELSE "null"]
        /\ recognitionIn' = Append(recognitionIn, [index |-> i, ok |-> ok])
    /\ UNCHANGED <<phase, assembled>>

\* await Promise.all(processingTasks) resumes; the nulls are filtered out
\* and the rest is sorted and returned
RunReturns ==
    /\ phase = "awaiting"
    /\ \A j \in DOMAIN boxTasks : boxTasks[j] \in {"decoded", "null"}
    /\ phase' = "returned"
    /\ assembled' \in Assembled(PromiseAll(recognitionIn))
    /\ UNCHANGED <<boxTasks, recognitionIn>>

\* the requests outstanding on the recognition session
RunsInFlight == {i \in DOMAIN boxTasks : boxTasks[i] = "running"}

RunSpecInit ==
    /\ Constructed(DefaultModelOptions, FALSE) /\ CacheInit(DefaultMaxSize)
    /\ keyIn = <<>> /\ keyOut = <<>>
    /\ UnusedInit

RunFrame ==
    /\ UNCHANGED serviceVars /\ UNCHANGED cacheVars /\ UNCHANGED keyVars
    /\ UNCHANGED boxVars /\ UNCHANGED decodeVars /\ UNCHANGED skewVars

RunNext ==
    \/ RunStarts /\ RunFrame
    \/ (\E i \in DOMAIN boxTasks : InferenceRequested(i)) /\ RunFrame
    \/ (\E i \in DOMAIN boxTasks : InferenceSettled(i)) /\ RunFrame
    \/ RunReturns /\ RunFrame

RunSpec == RunSpecInit /\ [][RunNext]_vars

---------------------------------------------------------------------------
(* Properties of ImageCache                                                *)

\* the bytes an input exposes: length bytes of its backing from offset on
LogicalBytes(x) == [i \in 1..x.length |-> x.backing[x.offset + i]]

\* C6: two inputs that expose the same byte sequence get the same key,
\* whatever their backing allocation, the bytes around the view or the
\* offset of the view, for ArrayBuffer and Buffer inputs (raw bytes) and
\* for Uint8ClampedArray inputs (pixel data)
C6_KeyOfLogicalBytes ==
    (keyOut # <<>> /\ LogicalBytes(keyIn[1]) = LogicalBytes(keyIn[2]))
        => keyOut[1] = keyOut[2]

\* a Buffer at a non-zero offset of a larger allocation and a pixel array
\* on another allocation, exposing the same two bytes, were given keys
C6_Witness ==
    /\ keyOut # <<>>
    /\ keyIn[1].kind = "Buffer" /\ keyIn[1].offset > 0
    /\ keyIn[2].kind = "Uint8ClampedArray"
    /\ keyIn[1].backing # keyIn[2].backing
    /\ LogicalBytes(keyIn[1]) = LogicalBytes(keyIn[2])
    /\ Len(LogicalBytes(keyIn[1])) = 2
    /\ keyOut[1] = keyOut[2]

\* C7: the number of entries of an ImageCache of capacity maxSize >= 1
\* never exceeds maxSize, after any sequence of get, set and clear
C7_SizeWithinCapacity == maxSize >= 1 => Len(cache) <= maxSize

\* a set of a new key into a full cache has just evicted an entry
C7_Witness ==
    /\ cacheOp.op = "set" /\ cacheOp.evicted # {}
    /\ cacheOp.key \notin cacheOp.evicted
    /\ Len(cache) = maxSize

---------------------------------------------------------------------------
(* Properties of the life cycle                                            *)

\* the step is a call of one of the operations ops
Called(ops) == last'.tick # last.tick /\ last'.op \in ops

\* C1: recognize and deskewImage, called on a pipeline that was never
\* initialized or that has been destroyed, reject with the not-initialized
\* error and run neither detection nor recognition
C1_RejectsWhenNotInitialized ==
    [][ (Called({"recognize", "deskewImage"}) /\ lifecycle # "Initialized")
            => /\ last'.outcome = NotInitializedError
               /\ last'.detRuns = 0 /\ last'.recRuns = 0 ]_vars

\* C2: changeDetectionModel, changeRecognitionModel and
\* changeTextDictionary, called while the pipeline is Uninitialized or
\* Destroyed, fail with the not-initialized error and install no session
\* and no dictionary
C2_SwapsRejectedWhenNotInitialized ==
    [][ ( /\ Called({"changeDetectionModel", "changeRecognitionModel",
                     "changeTextDictionary"})
          /\ lifecycle # "Initialized" )
            => /\ last'.outcome = NotInitializedError
               /\ UNCHANGED <<detectionSession, recognitionSession,
                              optDictionary>> ]_vars

\* C3: once destroy() has completed, no operation makes isInitialized()
\* return true again
C3_DestroyedIsTerminal ==
    [][ lifecycle = "Destroyed" => ~IsInitialized' ]_vars

---------------------------------------------------------------------------
(* Properties of recognize                                                 *)

\* the step is a recognize call that returned a result
Recognized == Called({"recognize"}) /\ last'.outcome = "ok"

\* the call may use the cache: caching is not disabled and no dictionary
\* is supplied
CacheEligible(call) == ~call.options.noCache /\ ~HasDictionary(call.options)

\* C4: of two successive recognize calls, with caching enabled and no
\* custom dictionary, on images with the same logical bytes, the second
\* returns the text and confidence of the first without a second run of
\* detection and recognition
C4_SecondCallServedFromCache ==
    [][ ( /\ Recognized
          /\ last.op = "recognize" /\ last.outcome = "ok"
          /\ CacheEligible(last) /\ CacheEligible(last')
          /\ LogicalBytes(last.image) = LogicalBytes(last'.image) )
            => /\ last'.detRuns = 0 /\ last'.recRuns = 0
               /\ last'.result.text = last.result.text
               /\ last'.result.confidence = last.result.confidence ]_vars

\* C5: a recognize call with noCache set, or with a custom dictionary,
\* leaves the contents of the cache as they were, and when it returns a
\* result it has run detection and recognition
C5_BypassLeavesCache ==
    [][ ( /\ Called({"recognize"})
          /\ (last'.options.noCache \/ HasDictionary(last'.options)) )
            => /\ cache' = cache
               /\ last'.outcome = "ok"
                     => (last'.detRuns = 1 /\ last'.recRuns = 1) ]_vars

\* a call with noCache returned a result for an image whose fingerprint
\* was in the cache
C5_Witness ==
    /\ last.op = "recognize" /\ last.outcome = "ok"
    /\ last.options.noCache
    /\ last.detRuns = 1 /\ last.recRuns = 1
    /\ cache # <<>> /\ cache[1].key = GenerateKey(last.image)

\* the grouped result g and the flattened result f agree
SameRecognition(g, f) ==
    /\ g.text = f.text
    /\ g.confidence = f.confidence
    /\ Len(f.results) = SumSeq([i \in 1..Len(g.lines) |-> Len(g.lines[i])])

\* the calls a and b differ in flatten only: same bytes, same dictionary
\* and noCache, same failures met
GroupedThenFlattened(a, b) ==
    /\ a.op = "recognize" /\ a.outcome = "ok"
    /\ b.op = "recognize" /\ b.outcome = "ok"
    /\ LogicalBytes(a.image) = LogicalBytes(b.image)
    /\ a.options.dictionary = b.options.dictionary
    /\ a.options.noCache = b.options.noCache
    /\ a.env = b.env
    /\ ~a.options.flatten /\ b.options.flatten

\* C9: a grouped and a flattened recognize call on the same image with the
\* same other options return the same text and the same confidence, and
\* the flattened results are as many as the items of all grouped lines
C9_GroupedAndFlattenedAgree ==
    [][ Called({"recognize"})
            => /\ GroupedThenFlattened(last, last')
                     => SameRecognition(last.result, last'.result)
               /\ GroupedThenFlattened(last', last)
                     => SameRecognition(last'.result, last.result) ]_vars

\* a flattened call returned two results for the bytes whose grouped
\* result, one line of two items, was kept from an earlier call
C9_Witness ==
    /\ last.op = "recognize" /\ last.outcome = "ok"
    /\ last.options.flatten /\ CacheEligible(last) /\ last.env = NoEnv
    /\ Len(last.result.results) = 2
    /\ cache # <<>> /\ cache[1].key = GenerateKey(last.image)
    /\ DOMAIN cache[1].value = {"text", "lines", "confidence"}
    /\ Len(cache[1].value.lines) = 1 /\ Len(cache[1].value.lines[1]) = 2
    /\ cache[1].value.text = last.result.text

\* C10: recognize returns the flattened shape (results, no lines) exactly
\* when flatten is true and the grouped shape (lines, no results)
\* otherwise, whatever an earlier call stored in the cache for the image
C10_ShapeFollowsFlatten ==
    (last.op = "recognize" /\ last.outcome = "ok")
        => DOMAIN last.result =
             IF last.options.flatten = TRUE
             THEN {"text", "results", "confidence"}
             ELSE {"text", "lines", "confidence"}

\* a grouped call returned while the cache held, under the fingerprint of
\* its image, the flattened result of an earlier call
C10_Witness ==
    /\ last.op = "recognize" /\ last.outcome = "ok"
    /\ ~last.options.flatten /\ CacheEligible(last)
    /\ "lines" \in DOMAIN last.result
    /\ cache # <<>> /\ cache[1].key = GenerateKey(last.image)
    /\ "results" \in DOMAIN cache[1].value

---------------------------------------------------------------------------
(* Properties of the per-box processing                                    *)

RECURSIVE FlatLines(_)
\* lines.flat()
FlatLines(lines) ==
    IF lines = <<>> THEN <<>> ELSE Head(lines) \o FlatLines(Tail(lines))

\* the recognized items of a result of either shape
ResultItems(result) ==
    IF "results" \in DOMAIN result THEN result.results
    ELSE FlatLines(result.lines)

\* C11: when processing some boxes fails inside a recognize call, the call
\* still returns a result, and the result holds one item for every other
\* valid box that detection found, and nothing else
C11_FailedBoxDropsOnlyItself ==
    (last.op = "recognize" /\ last.env.failed # {})
        => /\ last.outcome = "ok"
           /\ LET detection == DetectBoxes(detectionSession.model,
                                           Uint8ArrayOf(last.image))
                  kept == {i \in 1..Len(detection) :
                              IsValidBox(detection[i]) /\ i \notin last.env.failed}
                  items == ResultItems(last.result)
              IN  /\ Len(items) = Cardinality(kept)
                  /\ {items[n].box : n \in 1..Len(items)} =
                         {detection[i] : i \in kept}

\* of the two boxes of an image the first failed and the second is the
\* only item of the result
C11_Witness ==
    /\ last.op = "recognize" /\ last.outcome = "ok"
    /\ last.env.failed = {1}
    /\ LogicalBytes(last.image) = <<1, 200>>
    /\ Len(ResultItems(last.result)) = 1
    /\ ResultItems(last.result)[1].box = Bx(0, 1, 40, 10)

---------------------------------------------------------------------------
(* Properties of the dictionary                                            *)

\* C12: a dictionary whose content is empty is refused: initialize and
\* changeTextDictionary never install the dictionary read from empty
\* content, and a recognize call given empty content as its dictionary
\* fails instead of decoding with it
C12_EmptyDictionaryRefused ==
    [][ /\ ( /\ Called({"initialize", "changeTextDictionary"})
             /\ optDictionary' # optDictionary )
           => optDictionary' # Split(EmptyDictContent)
        /\ ( /\ Called({"recognize"}) /\ IsInitialized
             /\ last'.options.dictionary = Buf(EmptyDictContent) )
           => last'.outcome = "Error" ]_vars

---------------------------------------------------------------------------
(* Properties of the inference requests                                    *)

\* C13: the processBox tasks of one recognize call never have two run
\* requests outstanding on the recognition session at the same time
C13_OneRunInFlight == Cardinality(RunsInFlight) <= 1

---------------------------------------------------------------------------
(* Properties of the hot swaps                                             *)

\* the swap of the session held in field before/after completed: the
\* session held before, if any, was released exactly once, and the field
\* holds another session, which is live
SwappedCleanly(before, after) ==
    /\ after # NoSession /\ after # before
    /\ released'[after.id] = 0
    /\ IF before = NoSession THEN TRUE ELSE released'[before.id] = 1

\* C14: when changeDetectionModel or changeRecognitionModel completes
\* successfully, the prior session has been released exactly once and the
\* pipeline holds the new session
C14_SwapReleasesPriorOnce ==
    [][ /\ (Called({"changeDetectionModel"}) /\ last'.outcome = "ok")
           => SwappedCleanly(detectionSession, detectionSession')
        /\ (Called({"changeRecognitionModel"}) /\ last'.outcome = "ok")
           => SwappedCleanly(recognitionSession, recognitionSession') ]_vars

\* the session held in a field is the same and was not released
SessionKept(session, after) ==
    /\ after = session
    /\ IF session = NoSession THEN TRUE
       ELSE released'[session.id] = released[session.id]

\* C15: each hot swap changes only its own resource: changeDetectionModel
\* leaves the recognition session, the installed dictionary and the cache
\* as they were, changeRecognitionModel the detection session, the
\* dictionary and the cache, changeTextDictionary both sessions and the
\* cache
C15_SwapChangesOnlyItsResource ==
    [][ /\ Called({"changeDetectionModel"})
           => /\ SessionKept(recognitionSession, recognitionSession')
              /\ UNCHANGED <<optDictionary, cache>>
        /\ Called({"changeRecognitionModel"})
           => /\ SessionKept(detectionSession, detectionSession')
              /\ UNCHANGED <<optDictionary, cache>>
        /\ Called({"changeTextDictionary"})
           => /\ SessionKept(detectionSession, detectionSession')
              /\ SessionKept(recognitionSession, recognitionSession')
              /\ UNCHANGED cache ]_vars

\* the detection model of an initialized pipeline was swapped while the
\* cache held a result; the recognition session is live, the dictionary
\* is the one initialize installed
C15_Witness ==
    /\ last.op = "changeDetectionModel" /\ last.outcome = "ok"
    /\ detectionSession.model = "detB"
    /\ recognitionSession # NoSession
    /\ released[recognitionSession.id] = 0
    /\ optDictionary = Split(DefaultDictContent)
    /\ cache # <<>>

\* the dictionary a recognize call has to decode with
DictionaryOf(call) ==
    IF HasDictionary(call.options) THEN Split(call.options.dictionary.content)
    ELSE optDictionary

\* C16: a recognize call leaves the installed dictionary as it was, and
\* every text it returns is decoded with the dictionary of the call when
\* one is given, and with the installed dictionary otherwise
C16_OverrideIsPerCall ==
    [][ Called({"recognize"})
            => /\ optDictionary' = optDictionary
               /\ last'.outcome = "ok"
                    => LET items == ResultItems(last'.result)
                       IN  \A n \in 1..Len(items) :
                             items[n].text =
                               CtcGreedyDecode(
                                   Logits(recognitionSession.model, items[n].box),
                                   DictionaryOf(last')).text ]_vars

\* a call with an override returned two items decoded with the override,
\* whose texts the installed dictionary, left in place, would not give
C16_Witness ==
    /\ last.op = "recognize" /\ last.outcome = "ok"
    /\ last.options = OverrideOptions
    /\ optDictionary = Split(DefaultDictContent)
    /\ Len(ResultItems(last.result)) = 2
    /\ \A n \in 1..2 :
         LET item == ResultItems(last.result)[n]
         IN  /\ item.text = <<>>
             /\ CtcGreedyDecode(Logits(recognitionSession.model, item.box),
                                optDictionary).text # <<>>

---------------------------------------------------------------------------
(* Properties of the detection post-processing                             *)

\* C17: every box output by post-processing is non-degenerate and inside
\* the original image, and the padded rectangle it is scaled from lies
\* inside the padded canvas
C17_BoxInsideImage ==
    boxOut # <<>>
        => /\ \A n \in 1..Len(boxOut.boxes) :
                LET b == boxOut.boxes[n]
                IN  /\ b.x >= 0 /\ b.y >= 0 /\ b.width > 0 /\ b.height > 0
                    /\ b.x + b.width <= rectIn.input.originalWidth
                    /\ b.y + b.height <= rectIn.input.originalHeight
           /\ \A n \in 1..Len(boxOut.padded) :
                LET r == boxOut.padded[n]
                IN  /\ r.x >= 0 /\ r.y >= 0
                    /\ r.x + r.width <= rectIn.input.width
                    /\ r.y + r.height <= rectIn.input.height

\* a box was output whose padded rectangle, scaled back, is wider than
\* what the original image leaves right of the box
C17_Witness ==
    /\ boxOut # <<>> /\ Len(boxOut.boxes) = 1
    /\ boxOut.boxes[1].x + boxOut.boxes[1].width = rectIn.input.originalWidth
    /\ RoundDiv(boxOut.padded[1].width * rectIn.input.resizeRatio[2],
                rectIn.input.resizeRatio[1]) > boxOut.boxes[1].width
    /\ rectIn.input.resizeRatio # <<1, 1>>

---------------------------------------------------------------------------
(* Properties of failures of a whole run                                   *)

\* the result of a recognize call that found nothing, in either shape
IsEmptyResult(result) ==
    /\ result.text = <<>>
    /\ result.confidence = <<0, 1>>
    /\ ResultItems(result) = <<>>
    /\ "lines" \in DOMAIN result => result.lines = <<>>

\* C18: when detection or recognition as a whole throws during a recognize
\* call, the call does not reject: it resolves with the empty result, text
\* "", confidence 0 and no lines or results
C18_WholeFailureGivesEmptyResult ==
    (last.op = "recognize" /\ last.env.failure # "none")
        => /\ last.outcome = "ok"
           /\ IsEmptyResult(last.result)

\* recognition as a whole threw on an image in which detection had found
\* boxes, and the flattened result is empty
C18_Witness ==
    /\ last.op = "recognize" /\ last.outcome = "ok"
    /\ last.env.failure = "recognition"
    /\ last.options.flatten = TRUE
    /\ DetectBoxes(detectionSession.model, Uint8ArrayOf(last.image)) # <<>>
    /\ last.result.results = <<>> /\ last.result.text = <<>>

---------------------------------------------------------------------------
(* Properties of greedy decoding                                           *)

\* the class a timestep predicts: the first class that no class exceeds,
\* counted from 0
ArgMax(row) ==
    (CHOOSE c \in 1..Len(row) :
        /\ \A d \in 1..Len(row) : row[d] <= row[c]
        /\ \A d \in 1..(c - 1) : row[d] < row[c]) - 1

\* C19: decoding logits whose predicted class is the blank class at every
\* timestep returns text "" and confidence 0, for any sequence length, 0
\* included, and any dictionary
C19_AllBlankDecodesEmpty ==
    (/\ decodeOut # <<>>
     /\ \A t \in 1..Len(logitsIn.logits) : ArgMax(logitsIn.logits[t]) = 0)
        => decodeOut.result = [text |-> <<>>, confidence |-> <<0, 1>>]

\* the longest all-blank sequence, one timestep of it a tie that the blank
\* class wins, was decoded with a dictionary of several entries
C19_Witness ==
    /\ decodeOut # <<>>
    /\ Len(logitsIn.logits) = MaxSteps
    /\ \A t \in 1..Len(logitsIn.logits) : ArgMax(logitsIn.logits[t]) = 0
    /\ \E t \in 1..Len(logitsIn.logits) : logitsIn.logits[t][2] = logitsIn.logits[t][1]
    /\ Len(logitsIn.charDict) > 2
    /\ decodeOut.result.text = <<>>

\* the timesteps that begin a run of one predicted class
RunHeads(logits) ==
    {t \in 1..Len(logits) :
        t = 1 \/ ArgMax(logits[t]) # ArgMax(logits[t - 1])}

\* the heads of the runs of a non-blank class of the dictionary
InDictionaryHeads(logits, charDict) ==
    {t \in RunHeads(logits) :
        ArgMax(logits[t]) # 0 /\ ArgMax(logits[t]) < Len(charDict)}

\* the class is the final one and its entry is the unknown marker
IsUnknownMarker(k, charDict) ==
    k = Len(charDict) - 1 /\ charDict[k + 1] = UNK_TOKEN

RECURSIVE ScoresAt(_, _, _)
\* the score of the predicted class at each timestep of heads from t on,
\* in order
ScoresAt(logits, heads, t) ==
    IF t > Len(logits) THEN <<>>
    ELSE (IF t \in heads THEN <<logits[t][ArgMax(logits[t]) + 1]>> ELSE <<>>)
             \o ScoresAt(logits, heads, t + 1)

RECURSIVE SymbolsAt(_, _, _, _)
\* the text the runs beginning at heads spell: the entry of the class, or
\* a space for the final class
SymbolsAt(logits, charDict, heads, t) ==
    IF t > Len(logits) THEN <<>>
    ELSE (IF t \in heads
          THEN IF ArgMax(logits[t]) = Len(charDict) - 1 THEN <<" ">>
               ELSE charDict[ArgMax(logits[t]) + 1]
          ELSE <<>>)
             \o SymbolsAt(logits, charDict, heads, t + 1)

\* C20 as stated: every run of consecutive timesteps predicting the same
\* non-blank class of the dictionary records exactly one probability, that
\* of its first timestep
C20_RunYieldsOneSymbol ==
    decodeOut # <<>>
        => decodeOut.charConfidences =
               ScoresAt(logitsIn.logits,
                        InDictionaryHeads(logitsIn.logits, logitsIn.charDict), 1)

\* C20: every run of consecutive timesteps predicting the same non-blank
\* class of the dictionary, other than the final class when its entry is
\* the unknown marker, emits exactly one symbol and records exactly one
\* probability, that of its first timestep; nothing else is emitted
C20_RunYieldsOneSymbolUnlessUnknown ==
    decodeOut # <<>>
        => LET heads == {t \in InDictionaryHeads(logitsIn.logits,
                                                 logitsIn.charDict) :
                            ~IsUnknownMarker(ArgMax(logitsIn.logits[t]),
                                             logitsIn.charDict)}
           IN  /\ decodeOut.charConfidences = ScoresAt(logitsIn.logits, heads, 1)
               /\ decodeOut.result.text =
                      SymbolsAt(logitsIn.logits, logitsIn.charDict, heads, 1)

\* a run of three timesteps of class 1, the first weaker than the second,
\* gave the one symbol "b" with the probability of the first timestep
C20_Witness ==
    /\ decodeOut # <<>>
    /\ logitsIn.logits = <<<<1, 70, 2, 3>>, <<1, 80, 2, 3>>, <<1, 80, 2, 3>>>>
    /\ logitsIn.charDict = Split(DefaultDictContent)
    /\ decodeOut.result.text = <<"b">>
    /\ decodeOut.charConfidences = <<70>>
    /\ decodeOut.result.confidence = <<70, 1>>

---------------------------------------------------------------------------
(* Properties of the reading-order assembly                                *)

\* two results are roughly on the same line
SameLine(a, b) == 4 * Abs(a.box.y - b.box.y) < a.box.height + b.box.height

\* the same-line relation is transitive on the list
SameLineTransitive(rs) ==
    \A i, j, k \in 1..Len(rs) :
        (SameLine(rs[i], rs[j]) /\ SameLine(rs[j], rs[k])) => SameLine(rs[i], rs[k])

\* how many times a result occurs in a list
Occurrences(rs, r) == Cardinality({i \in 1..Len(rs) : rs[i] = r})

\* the boxes of the lines of a grouped result
LineBoxes(lines) ==
    [l \in 1..Len(lines) |-> [n \in 1..Len(lines[l]) |-> lines[l][n].box]]

\* C21: on a list of results whose same-line relation is transitive, the
\* sorted output is a permutation of the input in which results of one
\* line appear in ascending x and results of different lines in ascending
\* y; the boxes (50,0), (0,1), (0,20) of height 10 give one line holding
\* x 0 then x 50 and a second line holding the third
C21_ReadingOrder ==
    (assembled # <<>> /\ SameLineTransitive(recognitionIn))
        => LET out == assembled.sorted
           IN  /\ Len(out) = Len(recognitionIn)
               /\ \A i \in 1..Len(out) :
                     Occurrences(out, out[i]) = Occurrences(recognitionIn, out[i])
               /\ \A i, j \in 1..Len(out) : i < j =>
                     IF SameLine(out[i], out[j])
                     THEN out[i].box.x <= out[j].box.x
                     ELSE out[i].box.y <= out[j].box.y
               /\ [i \in 1..Len(recognitionIn) |-> recognitionIn[i].box] =
                      <<Bx(50, 0, 20, 10), Bx(0, 1, 20, 10), Bx(0, 20, 20, 10)>>
                  => LineBoxes(assembled.grouped.lines) =
                         <<<<Bx(0, 1, 20, 10), Bx(50, 0, 20, 10)>>,
                           <<Bx(0, 20, 20, 10)>>>>

\* the three boxes of the example were assembled into two lines
C21_Witness ==
    /\ assembled # <<>>
    /\ [i \in 1..Len(recognitionIn) |-> recognitionIn[i].box] =
           <<Bx(50, 0, 20, 10), Bx(0, 1, 20, 10), Bx(0, 20, 20, 10)>>
    /\ SameLineTransitive(recognitionIn)
    /\ Len(assembled.grouped.lines) = 2
    /\ assembled.sorted[1].box.x = 0 /\ assembled.sorted[2].box.x = 50

\* C30: in every grouped result the lines, concatenated in order, are the
\* sorted list of results: each result is in exactly one line, the order
\* is kept, no line is empty, and no results give no lines
C30_LinesPartitionSorted ==
    assembled # <<>>
        => /\ FlatLines(assembled.grouped.lines) = assembled.sorted
           /\ \A l \in 1..Len(assembled.grouped.lines) :
                 Len(assembled.grouped.lines[l]) > 0
           /\ assembled.sorted = <<>> => assembled.grouped.lines = <<>>

\* three results were grouped into a line of two and a line of one
C30_Witness ==
    /\ assembled # <<>>
    /\ Len(assembled.sorted) = 3
    /\ Len(assembled.grouped.lines) = 2
    /\ Len(assembled.grouped.lines[1]) = 2
    /\ FlatLines(assembled.grouped.lines) = assembled.sorted

---------------------------------------------------------------------------
(* Properties of deskewing                                                 *)

\* the last call rotated the source: a deskewImage that returned, or a
\* recognize with autoDeskew whose detection did not throw
Deskewed ==
    /\ last.outcome = "ok"
    /\ \/ last.op = "deskewImage"
       \/ /\ last.op = "recognize" /\ optAutoDeskew
          /\ last.env.failure \notin {"decode", "detection"}

\* C22: deskewImage, and the deskew pass of recognize with autoDeskew,
\* rotate the source by the negative of the estimated skew angle, and
\* deskewImage runs no recognition
C22_RotatesByNegativeAngle ==
    Deskewed
        => /\ last.env.rotation = -SkewAngle(Uint8ArrayOf(last.image))
           /\ last.op = "deskewImage" => last.recRuns = 0

\* C27: with autoDeskew, recognition crops the boxes from the canvas on
\* which they were detected
C27_CropsFromDetectedCanvas ==
    (last.op = "recognize" /\ last.outcome = "ok" /\ optAutoDeskew
        /\ last.env.failure = "none")
        => Rotate(Uint8ArrayOf(last.image), last.env.cropRotation) =
               Rotate(Uint8ArrayOf(last.image), last.env.rotation)

\* C28: the angle the skew estimator returns for pooled measurements with
\* angles in [-45, 45] lies in [-20, 20], also when the filter leaves no
\* measurement and the median of the unfiltered set is returned
C28_ConsensusWithinRange ==
    angleOut # <<>>
        => /\ angleOut[1][1] >= -20 * angleOut[1][2]
           /\ angleOut[1][1] <= 20 * angleOut[1][2]

---------------------------------------------------------------------------
(* Duplicate collapse across blanks                                        *)

---------------------------------------------------------------------------
(* Properties of the ownership of the sessions                             *)

\* C24: between calls, whenever isInitialized() returns true both sessions
\* held by the pipeline are unreleased, also after a model swap that
\* failed while loading or while creating the replacement session
C24_HeldSessionsAreLive ==
    IsInitialized
        => /\ released[detectionSession.id] = 0
           /\ released[recognitionSession.id] = 0

\* C25: when initialize() rejects on a pipeline that is not initialized
\* because the detection model, the recognition model or the dictionary
\* fails to load, isInitialized() stays false, and a recognize call that
\* follows rejects with the not-initialized error
C25_FailedInitializeStaysUninitialized ==
    [][ /\ (Called({"initialize"}) /\ last'.outcome = LoadError
               /\ ~IsInitialized)
            => ~IsInitialized'
        /\ (Called({"recognize"}) /\ last.op = "initialize"
               /\ last.outcome = LoadError /\ lifecycle = "Uninitialized")
            => last'.outcome = NotInitializedError ]_vars

\* C26: when destroy() has completed, every session the pipeline created,
\* by any initialize call or by a model swap, has been released
C26_DestroyReleasesEverySession ==
    [][ (Called({"destroy"}) /\ last'.outcome = "ok")
            => \A i \in 1..created : released'[i] > 0 ]_vars

---------------------------------------------------------------------------
(* Properties of the join of the per-box tasks                             *)

\* C29: the result of a run does not depend on the order in which the
\* per-box tasks complete: it is the assembly of the results of the tasks
\* that succeeded, taken in the order of their boxes, and it is assembled
\* only once every task has settled
C29_ResultIgnoresCompletionOrder ==
    assembled # <<>>
        => /\ \A i \in DOMAIN boxTasks : boxTasks[i] \in {"decoded", "null"}
           /\ Len(recognitionIn) = Len(boxTasks)
           /\ LET decoded == SelectSeq([i \in DOMAIN boxTasks |-> i],
                                       LAMBDA i : boxTasks[i] = "decoded")
                  inOrder == [n \in 1..Len(decoded) |-> BoxResult(decoded[n])]
              IN  /\ {assembled.sorted} = SortResultsByReadingOrder(inOrder)
                  /\ assembled.grouped = ProcessRecognition(assembled.sorted)

\* two tasks whose boxes tie in the comparator completed in the reverse
\* order of their boxes, and the result lists them in the order of the boxes
C29_Witness ==
    /\ assembled # <<>>
    /\ \E m, n \in 1..Len(recognitionIn) :
          /\ m < n
          /\ recognitionIn[m].ok /\ recognitionIn[n].ok
          /\ recognitionIn[m].index = 3 /\ recognitionIn[n].index = 1
    /\ \E m, n \in 1..Len(assembled.sorted) :
          /\ m < n
          /\ assembled.sorted[m] = BoxResult(1)
          /\ assembled.sorted[n] = BoxResult(3)

===========================================================================
